---- MODULE Spec2Model ----
(***************************************************************************)
(* Model of app.py (Voorraad App): column mapping, row normalisation, the  *)
(* sqlite stores, the three-way merge, the status classifier and the       *)
(* reorder recommendation.                                                 *)
(*                                                                         *)
(* Representation                                                          *)
(*  - a text cell is a sequence of one-character strings; a blank Excel    *)
(*    cell (pandas NaN) is the one-element sequence NaN;                   *)
(*  - a decimal number is an integer count of tenths ("deci"): 2.5 is 25;  *)
(*    the cell vocabulary has at most one decimal digit;                   *)
(*  - integers (forecast, quantities, MOQ) are plain integers;             *)
(*  - IEEE-754 double arithmetic of recommend() is modelled exactly on the *)
(*    bounded domain (see F64Mul11, F64CeilDiv) .                           *)
(***************************************************************************)
EXTENDS Integers, Sequences, FiniteSets, TLC

VARIABLES
    base_df,      \* st.session_state.base_df: None or a sequence of canonical rows
    db_base,      \* table base_data, in rowid order
    db_prices,    \* table prices, in rowid order
    db_incoming,  \* table incoming, in rowid order
    next_id,      \* sqlite AUTOINCREMENT counter of incoming.id
    db_settings,  \* table settings: a sequence of [key, value]
    db_suppliers, \* table suppliers, in rowid order
    today,        \* date.today() as a day number
    page,         \* st.session_state["_page"]
    view,         \* the table the last script run rendered on Home (none elsewhere)
    pc,           \* "app", or the position of a single function call
    args,         \* the arguments of the function call
    ret           \* the value the function call returned

vars == <<base_df, db_base, db_prices, db_incoming, next_id, db_settings,
          db_suppliers, today, page, view, pc, args, ret>>

stores == <<db_base, db_prices, db_incoming, next_id, db_settings, db_suppliers>>

appVars == <<base_df, db_base, db_prices, db_incoming, next_id, db_settings,
             db_suppliers, today, page, view>>

callVars == <<pc, args, ret>>

-----------------------------------------------------------------------------
(* Bounds of the model *)

MaxRows == 2
MaxShipments == 2
MaxDay == 2
MaxForecast == 26
MaxStockHalves == 8
MaxIncoming == 2
MaxOver == 3
MaxMoq == 3
MaxHeaders == 3
MaxTerms == 2
MaxSuppliers == 1
MaxAltRows == 1

\* a blank Excel cell
NaN == <<"NaN">>

-----------------------------------------------------------------------------
(* Small integer helpers *)

Max(a, b) == IF a >= b THEN a ELSE b

RECURSIVE Pow2(_)
Pow2(k) == IF k = 0 THEN 1 ELSE 2 * Pow2(k - 1)

\* floor(log2(n / d)) for n >= d > 0
RECURSIVE Log2Floor(_, _)
Log2Floor(n, d) == IF 2 * d <= n THEN 1 + Log2Floor(n, 2 * d) ELSE 0

\* ceil(n / d) for d > 0, any n
CeilDivInt(n, d) == -((-n) \div d)

RECURSIVE SumSeq(_)
SumSeq(s) == IF s = <<>> THEN 0 ELSE Head(s) + SumSeq(Tail(s))

-----------------------------------------------------------------------------
(* Text: str.strip, astype(str), str.replace *)

Space == " "

RECURSIVE LStrip(_)
LStrip(s) == IF s # <<>> /\ Head(s) = Space THEN LStrip(Tail(s)) ELSE s

RECURSIVE RStrip(_)
RStrip(s) ==
    IF s # <<>> /\ s[Len(s)] = Space THEN RStrip(SubSeq(s, 1, Len(s) - 1)) ELSE s

\* str.strip() of a text
Strip(s) == RStrip(LStrip(s))

\* astype(str): NaN prints as "nan", a string stays as it is
AsStr(c) == IF c = NaN THEN <<"n", "a", "n">> ELSE c

\* str.replace(",", ".", regex=False)
ReplaceComma(s) == [i \in 1..Len(s) |-> IF s[i] = "," THEN "." ELSE s[i]]

Digits == {"0", "1", "2", "3", "4", "5", "6", "7", "8", "9"}

DigitVal(c) ==
    CASE c = "0" -> 0 [] c = "1" -> 1 [] c = "2" -> 2 [] c = "3" -> 3 [] c = "4" -> 4
      [] c = "5" -> 5 [] c = "6" -> 6 [] c = "7" -> 7 [] c = "8" -> 8 [] c = "9" -> 9

RECURSIVE DigitsVal(_)
DigitsVal(s) ==
    IF s = <<>> THEN 0 ELSE 10 * DigitsVal(SubSeq(s, 1, Len(s) - 1)) + DigitVal(s[Len(s)])

\* a parsed number: nan, or a value in tenths
NumNaN == [nan |-> TRUE, v |-> 0]
Num(v) == [nan |-> FALSE, v |-> v]

\* pd.to_numeric(text, errors="coerce") of one string: surrounding blanks are
\* skipped, an optional sign, digits with at most one decimal point; anything
\* else (also "", "nan") is NaN
ToNumeric(s) ==
    LET t == Strip(s)
        signed == t # <<>> /\ t[1] \in {"-", "+"}
        body == IF signed THEN Tail(t) ELSE t
        dots == {i \in 1..Len(body) : body[i] = "."}
        wellFormed == /\ \A i \in 1..Len(body) : body[i] \in Digits \cup {"."}
                      /\ Cardinality(dots) <= 1
                      /\ \E i \in 1..Len(body) : body[i] \in Digits
    IN  IF ~wellFormed THEN NumNaN
        ELSE LET dot == IF dots = {} THEN Len(body) + 1 ELSE CHOOSE i \in dots : TRUE
                 ip == SubSeq(body, 1, dot - 1)
                 fp == SubSeq(body, dot + 1, Len(body))
                 mag == 10 * DigitsVal(ip) + (IF fp = <<>> THEN 0 ELSE DigitVal(fp[1]))
             IN  Num(IF signed /\ t[1] = "-" THEN -mag ELSE mag)

\* to_num of one cell: astype(str), "," -> ".", to_numeric, fillna(0); in tenths
to_num(x) ==
    LET n == ToNumeric(ReplaceComma(AsStr(x)))
    IN  IF n.nan THEN 0 ELSE n.v

\* np.ceil(x).astype(int) of a value in tenths
CeilInt(d) == CeilDivInt(d, 10)

-----------------------------------------------------------------------------
(* Status and advice *)

\* an integer cell: NaN, or a whole number
IntNaN == [nan |-> TRUE, v |-> 0]
IntCell(v) == [nan |-> FALSE, v |-> v]

\* to_int(x, default) on an integer cell: the number, default for NaN
to_int(x, default) == IF x.nan THEN default ELSE x.v

\* classify with the At-risk comparison made inclusive
classify_inclusive(row, over) ==
    LET f == 10 * row.Verkoopprognose_min_Totaal4w
        stock_total == row.Vrije_voorraad + 10 * row.Incoming
    IN  IF stock_total <= 0 THEN "Out of stock"
        ELSE IF f <= 0 THEN "Healthy"
        ELSE IF stock_total <= f THEN "At risk"
        ELSE IF stock_total >= f + 10 * over THEN "Overstock"
        ELSE "Healthy"

\* classify(row, over_units): row.Vrije_voorraad in tenths, the rest integers
classify(row, over) ==
    LET f == 10 * row.Verkoopprognose_min_Totaal4w
        stock_total == row.Vrije_voorraad + 10 * row.Incoming
    IN  IF stock_total <= 0 THEN "Out of stock"
        ELSE IF f <= 0 THEN "Healthy"
        ELSE IF stock_total < f THEN "At risk"
        ELSE IF stock_total >= f + 10 * over THEN "Overstock"
        ELSE "Healthy"

(* IEEE-754 doubles of recommend().  A double of this computation is written  *)
(* [I, E]: the real number I/10 + E * 2^-52 / 10, I the exact decimal value  *)
(* in tenths and E the rounding excess the double carries.                    *)

\* the low 12 bits of the 53-bit significand of the double 1.1
\* (0x1.199999999999ap+0 = 4953959590107546 / 2^52 = (11 * 2^52 + 4) / (10 * 2^52))
Mant11Low == 2458

\* 1.1 * f for an integer f >= 1, rounded to nearest, ties to even: the exact
\* product Mant11 * f has k = floor(log2(1.1 f)) bits too many; r are the bits
\* dropped, c the carry of the rounding
F64Mul11(f) ==
    LET k == Log2Floor(11 * f, 10)
        low == (Mant11Low * f) % Pow2(k + 1)
        r == low % Pow2(k)
        odd == low >= Pow2(k)
        half == Pow2(k) \div 2
        c == IF k > 0 /\ (r > half \/ (r = half /\ odd)) THEN 1 ELSE 0
    IN  [I |-> 11 * f, E |-> 4 * f - 10 * r + 10 * c * Pow2(k)]

\* the need taken as abs(t - s) instead of max(0.0, t - s)
F64SubAbs(t, s) ==
    LET I == t.I - s
    IN  IF I < 0 THEN [I |-> -I, E |-> -t.E] ELSE [I |-> I, E |-> t.E]

\* max(0.0, t - s) for a double t and a stock s >= 0 in tenths that is a multiple
\* of 0.5: s is a multiple of ulp(t) and the difference is no larger than t, so
\* the subtraction is exact
F64SubClamp(t, s) ==
    LET I == t.I - s
    IN  IF I < 0 \/ (I = 0 /\ t.E <= 0) THEN [I |-> 0, E |-> 0] ELSE [I |-> I, E |-> t.E]

\* np.ceil(x / m) for a double x >= 0 and an integer m >= 1: the quotient is
\* rounded to a double first, which lands on the integer n = I / (10 m) when the
\* excess is at most half an ulp of n, and above it otherwise
F64CeilDiv(x, m) ==
    IF x.I = 0 THEN (IF x.E > 0 THEN 1 ELSE 0)
    ELSE IF x.I % (10 * m) # 0 THEN CeilDivInt(x.I, 10 * m)
    ELSE LET n == x.I \div (10 * m)
         IN  IF x.E > 5 * m * Pow2(Log2Floor(n, 1)) THEN n + 1 ELSE n

\* recommend(row): row.Vrije_voorraad in tenths, row.MOQ an integer cell
recommend(row) ==
    LET f == row.Verkoopprognose_min_Totaal4w
        stock_total == row.Vrije_voorraad + 10 * row.Incoming
    IN  IF f <= 0 THEN 0
        ELSE LET target == F64Mul11(f)
                 need == F64SubClamp(target, stock_total)
                 moq == to_int(row.MOQ, 1)
             IN  F64CeilDiv(need, Max(1, moq)) * Max(1, moq)

-----------------------------------------------------------------------------
(* Column recognition *)

\* the header texts of the model
HeaderVocab ==
    {"EAN", "GTIN", "Barcode", "Code", "Referentie", "Titel", "Voorraad",
     "Vrije voorraad", "Stock", "Verkopen (Totaal)", "Sales total",
     "Verkoopprognose min (Totaal 4w)", "Forecast 4w", "Prognose 4w"}

\* str(c).strip().lower() of a header (the headers carry no outer blanks:
\* read_excel_all has stripped them)
HeaderNorm(c) ==
    CASE c = "EAN" -> "ean" [] c = "GTIN" -> "gtin" [] c = "Barcode" -> "barcode"
      [] c = "Code" -> "code" [] c = "Referentie" -> "referentie" [] c = "Titel" -> "titel"
      [] c = "Voorraad" -> "voorraad" [] c = "Vrije voorraad" -> "vrije voorraad"
      [] c = "Stock" -> "stock" [] c = "Verkopen (Totaal)" -> "verkopen (totaal)"
      [] c = "Sales total" -> "sales total"
      [] c = "Verkoopprognose min (Totaal 4w)" -> "verkoopprognose min (totaal 4w)"
      [] c = "Forecast 4w" -> "forecast 4w" [] c = "Prognose 4w" -> "prognose 4w"

\* PATTERNS: per field the ordered list of regular expressions, each written as
\* the set of normalised headers of HeaderVocab that re.search finds it in
PATTERNS ==
    [ean |-> << {"ean"},                              \* ^\s*ean\s*$
                {"gtin"},                             \* \bgtin\b
                {"barcode"},                          \* ^\s*barcode\s*$
                {} >>,                                \* ^\s*upc\s*$
     ref |-> << {"referentie"},                       \* ^\s*referentie\s*$
                {}, {}, {}, {}, {}, {}, {}, {} >>,    \* ^ref$ ... vendor\s*code
     title |-> << {"titel"},                          \* ^\s*titel\s*$
                  {}, {}, {} >>,                      \* naam, product naam, title
     stock |-> << {"vrije voorraad"},                 \* vrije\s*voorraad
                  {"voorraad", "vrije voorraad"},     \* \bvoorraad\b
                  {},                                 \* available
                  {"stock"} >>,                       \* stock
     sales_total |-> << {"verkopen (totaal)"},        \* verkopen\s*\(\s*totaal\s*\)
                        {"verkopen (totaal)"},        \* verkopen.*totaal
                        {},                           \* totaal.*verkopen
                        {"sales total"} >>,           \* sales\s*total
     forecast_min_4w |->
             << {"verkoopprognose min (totaal 4w)"},                 \* verkoopprognose.*4\s*w
                {"forecast 4w"},                                     \* forecast.*4
                {"verkoopprognose min (totaal 4w)", "prognose 4w"},  \* prognose.*4\s*w
                {"verkoopprognose min (totaal 4w)"} >>]              \* the full header

Fields == DOMAIN PATTERNS

Mandatory == {"ean", "title", "stock", "sales_total", "forecast_min_4w"}

\* any(re.search(p, cn, re.I) for p in pats)
AnyMatch(pats, cn) == \E p \in 1..Len(pats) : cn \in pats[p]

\* the columns of df, in header order, that match a pattern of field k
MatchingCols(columns, k) ==
    {i \in 1..Len(columns) : AnyMatch(PATTERNS[k], HeaderNorm(columns[i]))}

MinOf(S) == CHOOSE x \in S : \A y \in S : x <= y

\* auto_map(df): for every field the first column, in header order, that matches
\* any pattern; a field without a match gets no entry
auto_map(columns) ==
    [k \in {f \in Fields : MatchingCols(columns, f) # {}} |->
        columns[MinOf(MatchingCols(columns, k))]]

-----------------------------------------------------------------------------
(* Row normalisation *)

\* the selectbox entry for "no column"
Geen == "(geen)"

\* df_raw[h]: the position of column h (a KeyError when there is none)
ColIndex(columns, h) == CHOOSE i \in 1..Len(columns) : columns[i] = h

HasCol(columns, h) == \E i \in 1..Len(columns) : columns[i] = h

\* build_base(df_raw, sel): one canonical row per raw row, none dropped
build_base(df_raw, sel) ==
    LET col(k) == ColIndex(df_raw.columns, sel[k])
        row(r) ==
          [EAN |-> Strip(AsStr(r[col("ean")])),
           Referentie |-> IF sel["ref"] = Geen THEN <<>> ELSE AsStr(r[col("ref")]),
           Titel |-> AsStr(r[col("title")]),
           Vrije_voorraad |-> to_num(r[col("stock")]),
           Verkopen_Totaal |-> to_num(r[col("sales_total")]),
           Verkoopprognose_min_Totaal4w |-> CeilInt(to_num(r[col("forecast_min_4w")]))]
    IN  [i \in 1..Len(df_raw.rows) |-> row(df_raw.rows[i])]

-----------------------------------------------------------------------------
(* Data frames and the sqlite tables *)

\* a session value that is None, or a DataFrame with rows
NoneDF == [none |-> TRUE, rows |-> <<>>]
DF(rows) == [none |-> FALSE, rows |-> rows]

\* INSERT OR REPLACE of one row into a table with primary key EAN: a row with
\* the same key is deleted, the new row is appended
InsertOrReplace(table, r) == SelectSeq(table, LAMBDA x : x.EAN # r.EAN) \o <<r>>

RECURSIVE InsertAll(_, _)
InsertAll(table, rows) ==
    IF rows = <<>> THEN table ELSE InsertAll(InsertOrReplace(table, Head(rows)), Tail(rows))

\* load_base_df(): None for an empty table
load_base_df(table) == IF table = <<>> THEN NoneDF ELSE DF(table)

\* save_base_df(df): DELETE FROM base_data, then INSERT OR REPLACE of every row
save_base_df(rows) == InsertAll(<<>>, rows)

\* get_setting(key, default)
get_setting(settings, key, default) ==
    IF \E i \in 1..Len(settings) : settings[i].key = key
    THEN (settings[CHOOSE i \in 1..Len(settings) : settings[i].key = key]).value
    ELSE default

\* set_setting(key, value): INSERT OR REPLACE
set_setting(settings, key, value) ==
    SelectSeq(settings, LAMBDA x : x.key # key) \o <<[key |-> key, value |-> value]>>

\* the numeric coercion of a table cell: NaN and None become 0
Coerce(n) == IF n.nan THEN 0 ELSE n.v

\* save_prices(df): text stripped, numbers coerced, rows without EAN left out,
\* MOQ 0 stored as 1; DELETE FROM prices, then INSERT OR REPLACE
save_prices(rows) ==
    LET clean(r) ==
          [EAN |-> Strip(AsStr(r.EAN)),
           Referentie |-> Strip(AsStr(r.Referentie)),
           Verkoopprijs |-> Coerce(r.Verkoopprijs),
           Inkoopprijs |-> Coerce(r.Inkoopprijs),
           Verzendkosten |-> Coerce(r.Verzendkosten),
           Overige_kosten |-> Coerce(r.Overige_kosten),
           Leverancier |-> Strip(AsStr(r.Leverancier)),
           MOQ |-> IF Coerce(r.MOQ) = 0 THEN 1 ELSE Coerce(r.MOQ),
           Levertijd_dagen |-> Coerce(r.Levertijd_dagen)]
        cleaned == [i \in 1..Len(rows) |-> clean(rows[i])]
    IN  InsertAll(<<>>, SelectSeq(cleaned, LAMBDA r : r.EAN # <<>>))

\* load_prices(): the table with EAN and Referentie stripped
load_prices(table) ==
    [i \in 1..Len(table) |->
        [table[i] EXCEPT !.EAN = Strip(@), !.Referentie = Strip(@)]]

\* the row _save_home_main_callback adds for an EAN that has no terms row
DefaultTerms(e, lev) ==
    [EAN |-> e, Referentie |-> <<>>, Verkoopprijs |-> 0, Inkoopprijs |-> 0,
     Verzendkosten |-> 0, Overige_kosten |-> 0, Leverancier |-> lev, MOQ |-> 1,
     Levertijd_dagen |-> 0]

\* the loop over up.iterrows(): rows without EAN are skipped, a known EAN gets
\* the supplier, an unknown EAN gets a row of its own
RECURSIVE UpsertSuppliers(_, _)
UpsertSuppliers(prices, up) ==
    IF up = <<>> THEN prices
    ELSE LET e == Head(up).EAN
             lev == Head(up).Leverancier
             known == \E i \in 1..Len(prices) : prices[i].EAN = e
             next == IF e = <<>> THEN prices
                     ELSE IF known
                     THEN [i \in 1..Len(prices) |->
                             IF prices[i].EAN = e
                             THEN [prices[i] EXCEPT !.Leverancier = lev] ELSE prices[i]]
                     ELSE Append(prices, DefaultTerms(e, lev))
         IN  UpsertSuppliers(next, Tail(up))

\* a row of prices.reset_index() as save_prices reads it
AsCells(r) ==
    [EAN |-> r.EAN, Referentie |-> r.Referentie, Verkoopprijs |-> Num(r.Verkoopprijs),
     Inkoopprijs |-> Num(r.Inkoopprijs), Verzendkosten |-> Num(r.Verzendkosten),
     Overige_kosten |-> Num(r.Overige_kosten), Leverancier |-> r.Leverancier,
     MOQ |-> Num(r.MOQ), Levertijd_dagen |-> Num(r.Levertijd_dagen)]

\* _save_home_main_callback() on the table the Home editor holds
save_home_main(prices_table, edited) ==
    IF edited = <<>> THEN prices_table
    ELSE LET up == [i \in 1..Len(edited) |->
                      [EAN |-> Strip(AsStr(edited[i].EAN)),
                       Leverancier |-> Strip(AsStr(edited[i].Leverancier))]]
             prices == UpsertSuppliers(load_prices(prices_table), up)
         IN  save_prices([i \in 1..Len(prices) |-> AsCells(prices[i])])

\* supplier_options_list(): "", the supplier names and the suppliers in use
supplier_options_list(suppliers, prices_table) ==
    {<<>>} \cup {suppliers[i].Naam : i \in 1..Len(suppliers)}
           \cup {prices_table[i].Leverancier : i \in 1..Len(prices_table)}

\* load_suppliers(): the table as stored
load_suppliers(table) == table

\* save_suppliers(df): names stripped, rows without name left out; DELETE FROM
\* suppliers, then INSERT OR REPLACE on the primary key Naam
RECURSIVE InsertAllByNaam(_, _)
InsertAllByNaam(table, rows) ==
    IF rows = <<>> THEN table
    ELSE InsertAllByNaam(SelectSeq(table, LAMBDA x : x.Naam # Head(rows).Naam)
                           \o <<Head(rows)>>, Tail(rows))

save_suppliers(rows) ==
    LET cleaned == [i \in 1..Len(rows) |-> [rows[i] EXCEPT !.Naam = Strip(AsStr(@))]]
    IN  InsertAllByNaam(<<>>, SelectSeq(cleaned, LAMBDA r : r.Naam # <<>>))

\* delete_supplier(name)
delete_supplier(table, name) == SelectSeq(table, LAMBDA x : x.Naam # name)

\* add_incoming_row(ean, ref, qty, eta, leverancier, note)
add_incoming_row(table, id, ean, qty, eta) ==
    table \o <<[id |-> id, EAN |-> Strip(ean), Aantal |-> qty, ETA |-> eta]>>

\* a delete that takes every shipment of the product of row_id
delete_incoming_product(table, row_id) ==
    SelectSeq(table, LAMBDA x :
        \A i \in 1..Len(table) : table[i].id = row_id => x.EAN # table[i].EAN)

\* delete_incoming_row(row_id)
delete_incoming_row(table, row_id) == SelectSeq(table, LAMBDA x : x.id # row_id)

-----------------------------------------------------------------------------
(* Merge helper *)

RECURSIVE Flatten(_)
Flatten(ss) == IF ss = <<>> THEN <<>> ELSE Head(ss) \o Flatten(Tail(ss))

\* the filter with a strict comparison: a shipment due today is left out
FutureStrict(incoming, day) == SelectSeq(incoming, LAMBDA r : r.ETA.nan \/ r.ETA.v > day)

\* incoming[incoming["ETA"].isna() | (incoming["ETA"] >= date.today())]
Future(incoming, day) == SelectSeq(incoming, LAMBDA r : r.ETA.nan \/ r.ETA.v >= day)

\* base["EAN"].map(future.groupby("EAN")["Aantal"].sum()).fillna(0) for one EAN
IncSum(future, ean) ==
    LET group == SelectSeq(future, LAMBDA r : r.EAN = ean)
    IN  SumSeq([i \in 1..Len(group) |-> group[i].Aantal])

\* base.merge(prices, on="EAN", how="left") for one base row: a row per matching
\* prices row, or one row with NaN terms when there is none
LeftJoin(r, prices) ==
    LET hits == SelectSeq(prices, LAMBDA q : q.EAN = r.EAN)
        blank == [Referentie |-> NaN, Verkoopprijs |-> NumNaN, Inkoopprijs |-> NumNaN,
                  Verzendkosten |-> NumNaN, Overige_kosten |-> NumNaN, Leverancier |-> NaN,
                  MOQ |-> NumNaN, Levertijd_dagen |-> NumNaN]
        found(q) == [Referentie |-> q.Referentie, Verkoopprijs |-> Num(q.Verkoopprijs),
                     Inkoopprijs |-> Num(q.Inkoopprijs), Verzendkosten |-> Num(q.Verzendkosten),
                     Overige_kosten |-> Num(q.Overige_kosten), Leverancier |-> q.Leverancier,
                     MOQ |-> Num(q.MOQ), Levertijd_dagen |-> Num(q.Levertijd_dagen)]
        \* Referentie_u with "" replaced by NaN, then fillna(Referentie_p)
        ref(p) == IF r.Referentie = <<>> \/ r.Referentie = NaN THEN p.Referentie
                  ELSE r.Referentie
        out(p) == [base |-> r, terms |-> [p EXCEPT !.Referentie = ref(p)]]
    IN  IF hits = <<>> THEN <<out(blank)>> ELSE [j \in 1..Len(hits) |-> out(found(hits[j]))]

\* the else branch: the prices table is empty and the columns are filled in
NoPrices(r) ==
    [base |-> r,
     terms |-> [Referentie |-> r.Referentie, Verkoopprijs |-> Num(0), Inkoopprijs |-> Num(0),
                Verzendkosten |-> Num(0), Overige_kosten |-> Num(0), Leverancier |-> <<>>,
                MOQ |-> Num(0), Levertijd_dagen |-> Num(0)]]

\* the enriched row of one joined row: numbers coerced, derived columns added
Enrich(j) ==
    [EAN |-> j.base.EAN,
     Referentie |-> j.terms.Referentie,
     Titel |-> j.base.Titel,
     Vrije_voorraad |-> j.base.Vrije_voorraad,
     Verkopen_Totaal |-> j.base.Verkopen_Totaal,
     Verkoopprognose_min_Totaal4w |-> j.base.Verkoopprognose_min_Totaal4w,
     Incoming |-> j.base.Incoming,
     Verkoopprijs |-> Coerce(j.terms.Verkoopprijs),
     Inkoopprijs |-> Coerce(j.terms.Inkoopprijs),
     Verzendkosten |-> Coerce(j.terms.Verzendkosten),
     Overige_kosten |-> Coerce(j.terms.Overige_kosten),
     Leverancier |-> j.terms.Leverancier,
     MOQ |-> IntCell(Coerce(j.terms.MOQ)),
     Levertijd_dagen |-> Coerce(j.terms.Levertijd_dagen),
     \* in hundredths: tenths times tenths
     Voorraadwaarde |-> j.base.Vrije_voorraad * Coerce(j.terms.Verkoopprijs),
     Totale_kostprijs |-> Coerce(j.terms.Inkoopprijs) + Coerce(j.terms.Verzendkosten)
                            + Coerce(j.terms.Overige_kosten)]

\* merged_inventory() on the session base and the tables, at date.today() = day
merged_inventory(base, prices_table, incoming_table, day) ==
    IF base.none THEN NoneDF
    ELSE
      LET prices == load_prices(prices_table)
          future == IF incoming_table # <<>> THEN Future(incoming_table, day) ELSE <<>>
          withInc(r) ==
            [EAN |-> Strip(r.EAN), Referentie |-> r.Referentie, Titel |-> r.Titel,
             Vrije_voorraad |-> r.Vrije_voorraad, Verkopen_Totaal |-> r.Verkopen_Totaal,
             Verkoopprognose_min_Totaal4w |-> r.Verkoopprognose_min_Totaal4w,
             Incoming |-> IncSum(future, Strip(r.EAN))]
          b == [i \in 1..Len(base.rows) |-> withInc(base.rows[i])]
          joined == IF prices # <<>>
                    THEN Flatten([i \in 1..Len(b) |-> LeftJoin(b[i], prices)])
                    ELSE [i \in 1..Len(b) |-> NoPrices(b[i])]
      IN  DF([i \in 1..Len(joined) |-> Enrich(joined[i])])

-----------------------------------------------------------------------------
(* The Home page *)

\* int(get_setting("over_units", 30)): the threshold when none is stored
DefaultOverUnits == 30

\* str(n) of a whole number n >= 0
RECURSIVE IntToStr(_)
IntToStr(n) ==
    LET d == CHOOSE c \in Digits : DigitVal(c) = n % 10
    IN  IF n < 10 THEN <<d>> ELSE IntToStr(n \div 10) \o <<d>>

\* over_default = int(get_setting("over_units", 30))
OverDefault(settings) ==
    DigitsVal(get_setting(settings, "over_units", IntToStr(DefaultOverUnits)))

\* what the number_input holds: the default, or the number the user entered
Untouched == -1
OverInput(settings, input) == IF input = Untouched THEN OverDefault(settings) ELSE input

\* the threshold written back on every run
SettingsAlwaysSaved(settings, input) ==
    set_setting(settings, "over_units", IntToStr(OverInput(settings, input)))

\* if over_units != over_default: set_setting("over_units", over_units)
SettingsAfterRun(settings, input) ==
    IF OverInput(settings, input) # OverDefault(settings)
    THEN set_setting(settings, "over_units", IntToStr(OverInput(settings, input)))
    ELSE settings

\* st.session_state.base_df after a pass: merged_inventory works on base.copy()
SessionAfterRun(base) == base

NoView == [none |-> TRUE, rows |-> <<>>, asof |-> 0]

\* the Home page body after the upload block: merged_inventory, Status per row,
\* Aanbevolen bestelaantal per row ("All products" selected)
HomeTable(base, prices_table, incoming_table, over, day) ==
    LET inv == merged_inventory(base, prices_table, incoming_table, day)
        shown(r) == [row |-> r, Status |-> classify(r, over),
                     Aanbevolen_bestelaantal |-> recommend(r)]
    IN  IF inv.none THEN NoView
        ELSE [none |-> FALSE, rows |-> [i \in 1..Len(inv.rows) |-> shown(inv.rows[i])],
              asof |-> day]

\* one script run on page pg: only Home renders the table
Render(pg, base, prices_table, incoming_table, over, day) ==
    IF pg = "Home" THEN HomeTable(base, prices_table, incoming_table, over, day) ELSE NoView

-----------------------------------------------------------------------------
(* The files a user uploads and the tables a user edits *)

\* all sequences over S of length at most n
RECURSIVE SeqsUpTo(_, _)
SeqsUpTo(S, n) ==
    IF n = 0 THEN {<<>>}
    ELSE LET shorter == SeqsUpTo(S, n - 1)
         IN  shorter \cup {Append(q, x) : q \in {t \in shorter : Len(t) = n - 1}, x \in S}

StdColumns ==
    <<"EAN", "Titel", "Vrije voorraad", "Verkopen (Totaal)", "Verkoopprognose min (Totaal 4w)">>

\* a sheet whose identifier column has a header no pattern knows
AltColumns == <<"Titel", "Code", "Voorraad", "Sales total", "Forecast 4w">>

StdRows ==
    { << <<" ", "7">>, <<"T">>, <<"2", ",", "5">>, <<"3">>, <<"4">> >>,
      << <<" ">>,      <<"T">>, <<"0">>,           <<"3">>, NaN >>,
      << <<"7", " ">>, <<"U">>, <<"1">>,           <<"3">>, <<"-", "3">> >> }

AltRows == { << <<"T">>, <<"7">>, <<"5">>, <<"3">>, <<"4">> >> }

\* read_excel_all(up)[sheet]: the headers stripped, every cell text or NaN
Files ==
    {[columns |-> StdColumns, rows |-> rs] : rs \in SeqsUpTo(StdRows, MaxRows)}
      \cup {[columns |-> AltColumns, rows |-> rs] : rs \in SeqsUpTo(AltRows, MaxAltRows)}
      \cup {[columns |-> <<>>, rows |-> <<>>]}

\* the rows of the prices editor
TermsRows ==
    {[EAN |-> e, Referentie |-> <<>>, Verkoopprijs |-> Num(20), Inkoopprijs |-> Num(5),
      Verzendkosten |-> NumNaN, Overige_kosten |-> Num(0), Leverancier |-> <<"S", " ">>,
      MOQ |-> Num(2), Levertijd_dagen |-> Num(7)] : e \in {<<"7">>, <<"9", " ">>, <<" ">>}}

\* what the Incoming form is filled with
EanInputs == {<<"7">>, <<" ", "7">>, <<" ">>}
QtyInputs == {0, 2}
EtaInputs == {IntNaN, IntCell(1), IntCell(2)}
OverInputs == {Untouched, 0}
Pages == {"Home", "Inventory", "Suppliers", "Incoming"}

\* what the form "Nieuwe leverancier toevoegen" is filled with
NaamInputs == {<<"S", " ">>, <<" ">>}
ProdInputs == {3}

\* the suppliers the selectbox of the Home table may offer
LevInputs == {<<>>, <<"S">>, <<"n", "a", "n">>}

-----------------------------------------------------------------------------
(* The upload form *)

\* what a selectbox without options returns
NoSelection == "(None)"

\* pick(lbl, key, optional): the options and the entry the selectbox starts on:
\* the auto-mapped header, else the entry at index 0
Opts(columns, optional) == (IF optional THEN <<Geen>> ELSE <<>>) \o columns

DefaultPick(columns, auto, key, optional) ==
    LET opts == Opts(columns, optional)
    IN  IF opts = <<>> THEN NoSelection
        ELSE IF key \in DOMAIN auto /\ HasCol(opts, auto[key]) THEN auto[key]
        ELSE opts[1]

\* sel as the form shows it before the user touches a selectbox
DefaultSel(columns) ==
    [k \in Fields |-> DefaultPick(columns, auto_map(columns), k, k = "ref")]

\* the selections a user may leave the form with: the defaults, or a column of
\* the user's choice for one field auto_map left open
UserSels(columns) ==
    {DefaultSel(columns)} \cup
    {[DefaultSel(columns) EXCEPT ![k] = columns[i]] :
        k \in Mandatory \ DOMAIN auto_map(columns), i \in 1..Len(columns)}

\* ok = all(sel[k] not in ["(geen)"] for k in mandatory): the button is enabled
Ok(sel) == \A k \in Mandatory : sel[k] # Geen

\* build_base raises KeyError for a selection that is no column
Raises(df_raw, sel) ==
    \E k \in Fields : sel[k] # Geen /\ ~HasCol(df_raw.columns, sel[k])

-----------------------------------------------------------------------------
(* Actions: one per user interaction, each followed by the script run *)

InApp == pc = "app" /\ UNCHANGED callVars

\* the run after an interaction that left the number_input alone
Rendered(pg, base, prices_table, incoming_table, settings, day) ==
    Render(pg, base, prices_table, incoming_table, OverDefault(settings), day)

\* str.lower() on the supplier-name alphabet
Lower(s) == [i \in 1..Len(s) |-> IF s[i] = "S" THEN "s" ELSE s[i]]

\* the body of the Suppliers page after the form: the editor shows the table and
\* the page saves what the editor holds
SuppliersRun(table) == save_suppliers(load_suppliers(table))

\* a sidebar button, or any click that changes nothing
Navigate(p) ==
    /\ InApp
    /\ page' = p
    /\ view' = Rendered(p, base_df, db_prices, db_incoming, db_settings, today)
    /\ db_suppliers' = IF p = "Suppliers" THEN SuppliersRun(db_suppliers) ELSE db_suppliers
    /\ UNCHANGED <<base_df, db_base, db_prices, db_incoming, next_id, db_settings, today>>

\* an upload that starts from a clean database: the terms are deleted with the stock
VastleggenFresh(raw, sel) ==
    /\ InApp
    /\ page \in {"Home", "Inventory"}
    /\ base_df.none
    /\ Ok(sel)
    /\ ~Raises(raw, sel)
    /\ db_base' = save_base_df(build_base(raw, sel))
    /\ base_df' = DF(build_base(raw, sel))
    /\ db_prices' = <<>>
    /\ view' = Rendered(page, DF(build_base(raw, sel)), <<>>, db_incoming, db_settings, today)
    /\ UNCHANGED <<db_incoming, next_id, db_settings, db_suppliers, today, page>>

\* upload_base_ui: a file is chosen and "Vastleggen" is clicked
Vastleggen(raw, sel) ==
    /\ InApp
    /\ page \in {"Home", "Inventory"}
    /\ base_df.none
    /\ Ok(sel)
    /\ IF Raises(raw, sel)
       THEN \* except Exception: st.error
            /\ UNCHANGED <<base_df, db_base>>
            /\ view' = Rendered(page, base_df, db_prices, db_incoming, db_settings, today)
       ELSE LET base == build_base(raw, sel)
            IN  /\ db_base' = save_base_df(base)
                /\ base_df' = DF(base)
                /\ view' = Rendered(page, DF(base), db_prices, db_incoming, db_settings, today)
    /\ UNCHANGED <<db_prices, db_incoming, next_id, db_settings, db_suppliers, today, page>>

\* the Home page with stock data: the threshold input, the table
HomeRun(input) ==
    /\ InApp
    /\ page = "Home"
    /\ ~base_df.none
    /\ db_settings' = SettingsAfterRun(db_settings, input)
    /\ base_df' = SessionAfterRun(base_df)
    /\ view' = Render("Home", base_df, db_prices, db_incoming,
                      OverInput(db_settings, input), today)
    /\ UNCHANGED <<db_base, db_prices, db_incoming, next_id, db_suppliers, today, page>>

\* the table the Home editor holds: the rendered rows, the supplier of row i
\* (if any) set to lev
HomeEdited(i, lev) ==
    [k \in 1..Len(view.rows) |->
        [EAN |-> view.rows[k].row.EAN,
         Leverancier |-> IF k = i THEN lev ELSE view.rows[k].row.Leverancier]]

\* _save_home_main_callback: a supplier cell of the Home table changed
SaveHome(i, lev) ==
    /\ InApp
    /\ page = "Home"
    /\ ~view.none
    /\ i \in 0..Len(view.rows)
    /\ lev \in supplier_options_list(db_suppliers, db_prices)
    /\ i = 0 => lev = <<>>
    /\ db_prices' = save_home_main(db_prices, HomeEdited(i, lev))
    /\ view' = Rendered("Home", base_df, db_prices', db_incoming, db_settings, today)
    /\ UNCHANGED <<base_df, db_base, db_incoming, next_id, db_settings, db_suppliers,
                   today, page>>

\* _save_prices_callback: the prices editor changed
SavePrices(edited) ==
    /\ InApp
    /\ page = "Inventory"
    /\ ~base_df.none
    /\ db_prices' = IF edited = <<>> THEN db_prices ELSE save_prices(edited)
    /\ view' = NoView
    /\ UNCHANGED <<base_df, db_base, db_incoming, next_id, db_settings, db_suppliers, today, page>>

\* the form "Handmatig zending toevoegen"
AddIncoming(ean, qty, eta) ==
    /\ InApp
    /\ page = "Incoming"
    /\ next_id <= MaxShipments
    /\ IF Strip(ean) = <<>> \/ qty <= 0
       THEN UNCHANGED <<db_incoming, next_id>>
       ELSE /\ db_incoming' = add_incoming_row(db_incoming, next_id, ean, qty, eta)
            /\ next_id' = next_id + 1
    /\ UNCHANGED <<base_df, db_base, db_prices, db_settings, db_suppliers, today, page, view>>

\* the button "Verwijder ID"
DeleteIncoming(del_id) ==
    /\ InApp
    /\ page = "Incoming"
    /\ db_incoming # <<>>
    /\ db_incoming' =
         IF del_id > 0 /\ \E i \in 1..Len(db_incoming) : db_incoming[i].id = del_id
         THEN delete_incoming_row(db_incoming, del_id)
         ELSE db_incoming
    /\ UNCHANGED <<base_df, db_base, db_prices, next_id, db_settings, db_suppliers, today, page, view>>

\* the form "Nieuwe leverancier toevoegen"
AddSupplier(naam, prod) ==
    /\ InApp
    /\ page = "Suppliers"
    /\ LET sup == load_suppliers(db_suppliers)
           new_row == [Naam |-> Strip(naam), Productietijd_dagen |-> prod]
           exists == \E i \in 1..Len(sup) : Lower(sup[i].Naam) = Lower(Strip(naam))
           added == IF exists
                    THEN [i \in 1..Len(sup) |->
                            IF Lower(sup[i].Naam) = Lower(Strip(naam)) THEN new_row
                            ELSE sup[i]]
                    ELSE sup \o <<new_row>>
       IN  db_suppliers' = IF Strip(naam) = <<>> THEN SuppliersRun(db_suppliers)
                           ELSE SuppliersRun(save_suppliers(added))
    /\ UNCHANGED <<base_df, db_base, db_prices, db_incoming, next_id, db_settings,
                   today, page, view>>

\* the button "Verwijder geselecteerde"
DeleteSupplier(i) ==
    /\ InApp
    /\ page = "Suppliers"
    /\ i \in 1..Len(db_suppliers)
    /\ db_suppliers' = delete_supplier(SuppliersRun(db_suppliers), db_suppliers[i].Naam)
    /\ UNCHANGED <<base_df, db_base, db_prices, db_incoming, next_id, db_settings,
                   today, page, view>>

\* a new browser session: session_state is empty, base_df = load_base_df()
Refresh ==
    /\ InApp
    /\ base_df' = load_base_df(db_base)
    /\ page' = "Home"
    /\ view' = Rendered("Home", load_base_df(db_base), db_prices, db_incoming,
                        db_settings, today)
    /\ UNCHANGED <<stores, today>>

\* midnight passes
AdvanceDay ==
    /\ InApp
    /\ today < MaxDay
    /\ today' = today + 1
    /\ UNCHANGED <<base_df, stores, page, view>>

NoCall == [fn |-> "none"]

\* a fresh database and a new session on the Home page
InitApp ==
    /\ db_base = <<>>
    /\ db_prices = <<>>
    /\ db_incoming = <<>>
    /\ next_id = 1
    /\ db_settings = <<>>
    /\ db_suppliers = <<>>
    /\ today = 1
    /\ base_df = load_base_df(<<>>)
    /\ page = "Home"
    /\ view = NoView

Init == InitApp /\ pc = "app" /\ args = NoCall /\ ret = <<>>

Next ==
    \/ \E p \in Pages : Navigate(p)
    \/ \E raw \in Files : \E sel \in UserSels(raw.columns) : Vastleggen(raw, sel)
    \/ \E input \in OverInputs : HomeRun(input)
    \/ \E edited \in SeqsUpTo(TermsRows, MaxTerms) : SavePrices(edited)
    \/ \E i \in 0..MaxRows, lev \in LevInputs : SaveHome(i, lev)
    \/ \E ean \in EanInputs, qty \in QtyInputs, eta \in EtaInputs : AddIncoming(ean, qty, eta)
    \/ \E del_id \in 0..MaxShipments : DeleteIncoming(del_id)
    \/ \E naam \in NaamInputs, prod \in ProdInputs : AddSupplier(naam, prod)
    \/ \E i \in 1..MaxSuppliers : DeleteSupplier(i)
    \/ Refresh
    \/ AdvanceDay

Spec == Init /\ [][Next]_vars

-----------------------------------------------------------------------------
(* Single calls of the pure functions, the arguments drawn from bounded sets *)

StockInputs == {5 * h : h \in 0..MaxStockHalves}
MoqInputs == {IntNaN} \cup {IntCell(m) : m \in -1..MaxMoq}

CallRow(vv, inc, f, moq) ==
    [Vrije_voorraad |-> vv, Incoming |-> inc, Verkoopprognose_min_Totaal4w |-> f, MOQ |-> moq]

ClassifyCalls ==
    {[fn |-> "classify", row |-> CallRow(vv, inc, f, IntCell(1)), over |-> o] :
        vv \in StockInputs, inc \in 0..MaxIncoming, f \in 0..MaxForecast, o \in 0..MaxOver}

RecommendCalls ==
    {[fn |-> "recommend", row |-> CallRow(vv, inc, f, moq)] :
        vv \in StockInputs, inc \in 0..MaxIncoming, f \in 0..MaxForecast, moq \in MoqInputs}

AutoMapHeaders == {"EAN", "Barcode", "Code", "Voorraad", "Vrije voorraad", "Stock"}

AutoMapCalls ==
    {[fn |-> "auto_map", columns |-> cs] :
        cs \in {q \in SeqsUpTo(AutoMapHeaders, MaxHeaders) :
                   \A i, j \in 1..Len(q) : i # j => q[i] # q[j]}}

EanCells == {<<"7">>, <<" ", "7", " ">>, <<" ">>, <<>>, NaN}

NumCells ==
    {<<"4">>, <<"0">>, <<"1", "2", ",", "5">>, <<"1", "2", ".", "5">>, <<"-", "3">>,
     <<"-", "0", ",", "5">>, <<"-", "2", ",", "5">>, <<" ", "7", " ">>, <<"x">>, <<>>,
     <<"1", ".", "2", ",", "5">>, NaN}

StdSel ==
    [ean |-> "EAN", ref |-> Geen, title |-> "Titel", stock |-> "Vrije voorraad",
     sales_total |-> "Verkopen (Totaal)", forecast_min_4w |-> "Verkoopprognose min (Totaal 4w)"]

BuildBaseCalls ==
    {[fn |-> "build_base",
      df_raw |-> [columns |-> StdColumns, rows |-> << <<e, <<"T">>, v, <<"3">>, f>> >>],
      sel |-> StdSel] : e \in EanCells, v \in NumCells, f \in NumCells}

Calls == ClassifyCalls \cup RecommendCalls \cup AutoMapCalls \cup BuildBaseCalls

Return(value) ==
    /\ pc = "call"
    /\ pc' = "done"
    /\ ret' = value
    /\ UNCHANGED <<args, appVars>>

CallClassify == args.fn = "classify" /\ Return(classify(args.row, args.over))

CallRecommend == args.fn = "recommend" /\ Return(recommend(args.row))

CallAutoMap == args.fn = "auto_map" /\ Return(auto_map(args.columns))

CallBuildBase == args.fn = "build_base" /\ Return(build_base(args.df_raw, args.sel))

InitPure == InitApp /\ pc = "call" /\ args \in Calls /\ ret = <<>>

NextPure == CallClassify \/ CallRecommend \/ CallAutoMap \/ CallBuildBase

SpecPure == InitPure /\ [][NextPure]_vars

Returned(fn) == pc = "done" /\ args.fn = fn

-----------------------------------------------------------------------------
(* Properties *)

TotalStock10(row) == row.Vrije_voorraad + 10 * row.Incoming

\* C3: for non-negative inputs classify returns exactly one of the four states,
\* the one the ordered decision procedure gives: Out of stock iff totalStock <= 0;
\* At risk iff there is stock and demand and totalStock < forecast; Overstock iff
\* there is stock and demand and totalStock >= forecast + threshold; Healthy in
\* every other case.  totalStock = forecast is never At risk.
C3_ClassifyDecision ==
    Returned("classify") =>
        LET ts == TotalStock10(args.row)
            f == 10 * args.row.Verkoopprognose_min_Totaal4w
            thr == 10 * args.over
        IN  /\ ret \in {"Out of stock", "At risk", "Healthy", "Overstock"}
            /\ (ret = "Out of stock") <=> (ts <= 0)
            /\ (ret = "At risk") <=> (ts > 0 /\ f > 0 /\ ts < f)
            /\ (ret = "Overstock") <=> (ts > 0 /\ f > 0 /\ ts >= f /\ ts >= f + thr)
            /\ (ret = "Healthy") <=> (ts > 0 /\ (f <= 0 \/ (ts >= f /\ ts < f + thr)))
            /\ (ts = f => ret # "At risk")

\* a classify call on the boundary totalStock = forecast > 0 that came out Healthy
C3_Witness ==
    /\ Returned("classify")
    /\ TotalStock10(args.row) = 10 * args.row.Verkoopprognose_min_Totaal4w
    /\ args.row.Incoming > 0
    /\ args.over > 0
    /\ ret = "Healthy"

\* C4: recommend returns a non-negative multiple of max(1, moq); 0 when the
\* forecast is <= 0; otherwise the smallest such multiple that is
\* >= max(0, 1.1 * forecast - totalStock) (in tenths: 11 * forecast - totalStock).
C4_RecommendSmallestMultiple ==
    Returned("recommend") =>
        LET m == Max(1, to_int(args.row.MOQ, 1))
            f == args.row.Verkoopprognose_min_Totaal4w
            need10 == Max(0, 11 * f - TotalStock10(args.row))
        IN  /\ ret >= 0
            /\ ret % m = 0
            /\ f <= 0 => ret = 0
            /\ f > 0 => /\ 10 * ret >= need10
                        /\ ret > 0 => 10 * (ret - m) < need10

\* C8: recommend is monotonic in the forecast and anti-monotonic in the total
\* stock: with the other arguments fixed, a larger forecast never gives a smaller
\* quantity, and more free stock or more incoming never gives a larger one.
C8_RecommendMonotone ==
    Returned("recommend") =>
        LET r == args.row
        IN  /\ \A f2 \in r.Verkoopprognose_min_Totaal4w..MaxForecast :
                 recommend([r EXCEPT !.Verkoopprognose_min_Totaal4w = f2]) >= ret
            /\ \A vv \in StockInputs :
                 vv >= r.Vrije_voorraad => recommend([r EXCEPT !.Vrije_voorraad = vv]) <= ret
            /\ \A inc \in r.Incoming..MaxIncoming :
                 recommend([r EXCEPT !.Incoming = inc]) <= ret

\* a recommend call with a positive result that a larger forecast raises and a
\* larger stock lowers
C8_Witness ==
    /\ Returned("recommend")
    /\ ret > 0
    /\ \E f2 \in args.row.Verkoopprognose_min_Totaal4w..MaxForecast :
         recommend([args.row EXCEPT !.Verkoopprognose_min_Totaal4w = f2]) > ret
    /\ \E vv \in StockInputs :
         /\ vv > args.row.Vrije_voorraad
         /\ recommend([args.row EXCEPT !.Vrije_voorraad = vv]) < ret

\* the first pattern of field k, in list order, that some column matches
BestPattern(columns, k) ==
    MinOf({p \in 1..Len(PATTERNS[k]) :
             \E i \in 1..Len(columns) : HeaderNorm(columns[i]) \in PATTERNS[k][p]})

\* C9: auto_map leaves a field without matching header unmapped, and maps a field
\* with matching headers to the header that matches the earliest pattern of the
\* field's list, wherever the headers stand.
C9_AutoMapPatternOrder ==
    Returned("auto_map") =>
        \A k \in Fields :
            IF MatchingCols(args.columns, k) = {} THEN k \notin DOMAIN ret
            ELSE /\ k \in DOMAIN ret
                 /\ HeaderNorm(ret[k]) \in PATTERNS[k][BestPattern(args.columns, k)]

\* C10: the normalised forecast is a non-negative integer: 0 for a blank,
\* unparseable or negative cell, the value rounded up otherwise, and rounding it
\* again changes nothing.
C10_ForecastNonNegative ==
    Returned("build_base") =>
        LET cell == args.df_raw.rows[1][5]
            parsed == ToNumeric(ReplaceComma(AsStr(cell)))
            fc == ret[1].Verkoopprognose_min_Totaal4w
        IN  /\ fc >= 0
            /\ (parsed.nan \/ parsed.v < 0) => fc = 0
            /\ (~parsed.nan /\ parsed.v >= 0) => (10 * fc >= parsed.v /\ 10 * (fc - 1) < parsed.v)
            /\ CeilInt(10 * fc) = fc

\* C1: when auto_map resolves no header for a mandatory field and the user
\* leaves the form as it is, "Vastleggen" produces and persists no stock
\* dataset (no other column stands in for the unresolved field).
C1_UnresolvedFieldBlocksCommit ==
    [][\A raw \in Files :
         (/\ ~(Mandatory \subseteq DOMAIN auto_map(raw.columns))
          /\ Vastleggen(raw, DefaultSel(raw.columns)))
           => UNCHANGED <<base_df, db_base>>]_vars

\* C2: every record of the stock dataset, in the session and in base_data, has a
\* non-empty, trimmed EAN.
C2_NoEmptyProductId ==
    /\ \A i \in 1..Len(base_df.rows) :
         base_df.rows[i].EAN # <<>> /\ Strip(base_df.rows[i].EAN) = base_df.rows[i].EAN
    /\ \A i \in 1..Len(db_base) :
         db_base[i].EAN # <<>> /\ Strip(db_base[i].EAN) = db_base[i].EAN

\* the enriched view a pass computes in the current state
Merged == merged_inventory(base_df, db_prices, db_incoming, today)

StockEans(base) == {Strip(base.rows[i].EAN) : i \in 1..Len(base.rows)}

Orphans(table, base) == SelectSeq(table, LAMBDA r : r.EAN \notin StockEans(base))

Matching(table, base) == SelectSeq(table, LAMBDA r : r.EAN \in StockEans(base))

\* the enriched view has exactly one row per stock record, in order
C5_OneRowPerStockRecord ==
    ~base_df.none =>
        /\ Len(Merged.rows) = Len(base_df.rows)
        /\ \A i \in 1..Len(base_df.rows) :
             /\ Merged.rows[i].EAN = Strip(base_df.rows[i].EAN)
             /\ Merged.rows[i].Titel = base_df.rows[i].Titel
             /\ Merged.rows[i].Vrije_voorraad = base_df.rows[i].Vrije_voorraad

\* a step that only adds terms rows or shipments of products without stock record
C5_OrphanAdded ==
    /\ ~base_df.none /\ UNCHANGED <<base_df, today>>
    /\ Matching(db_prices', base_df) = Matching(db_prices, base_df)
    /\ Matching(db_incoming', base_df) = Matching(db_incoming, base_df)
    /\ \/ Len(Orphans(db_prices', base_df)) > Len(Orphans(db_prices, base_df))
       \/ Len(Orphans(db_incoming', base_df)) > Len(Orphans(db_incoming, base_df))

\* a step that only removes terms rows or shipments of products without stock record
C5_OrphanRemoved ==
    /\ ~base_df.none /\ UNCHANGED <<base_df, today>>
    /\ Matching(db_prices', base_df) = Matching(db_prices, base_df)
    /\ Matching(db_incoming', base_df) = Matching(db_incoming, base_df)
    /\ \/ Len(Orphans(db_prices', base_df)) < Len(Orphans(db_prices, base_df))
       \/ Len(Orphans(db_incoming', base_df)) < Len(Orphans(db_incoming, base_df))

\* C5: the merge is left-outer from the stock side: one enriched row per stock
\* record whatever the terms and shipment stores hold; adding a terms row or a
\* shipment for a product without stock record adds no enriched row, and
\* removing one leaves every enriched row unchanged.
C5_LeftOuterStable ==
    /\ []C5_OneRowPerStockRecord
    /\ [][C5_OrphanAdded => Len(Merged'.rows) = Len(Merged.rows)]_vars
    /\ [][C5_OrphanRemoved => Merged' = Merged]_vars

RECURSIVE SumAantal(_)
SumAantal(S) ==
    IF S = {} THEN 0
    ELSE LET r == CHOOSE x \in S : TRUE IN r.Aantal + SumAantal(S \ {r})

\* the shipments of product ean that are pending on day: no ETA, or ETA >= day
Pending(ean, day) ==
    {db_incoming[i] : i \in {j \in 1..Len(db_incoming) :
        /\ db_incoming[j].EAN = ean
        /\ (db_incoming[j].ETA.nan \/ db_incoming[j].ETA.v >= day)}}

\* C6: the Incoming of every enriched row is the sum of the quantities of the
\* shipments with the same EAN whose ETA is absent or today or later (0 when
\* there is none), in the view a pass computes and in the table on screen.
C6_IncomingIsPendingSum ==
    /\ \A i \in 1..Len(Merged.rows) :
         Merged.rows[i].Incoming = SumAantal(Pending(Merged.rows[i].EAN, today))
    /\ \A i \in 1..Len(view.rows) :
         view.rows[i].row.Incoming = SumAantal(Pending(view.rows[i].row.EAN, view.asof))

\* a stock record with a shipment due today counted and a past one left out
C6_Witness ==
    \E i \in 1..Len(Merged.rows) :
        /\ Merged.rows[i].Incoming = 2
        /\ \E j, k \in 1..Len(db_incoming) :
             /\ db_incoming[j].EAN = Merged.rows[i].EAN
             /\ db_incoming[k].EAN = Merged.rows[i].EAN
             /\ ~db_incoming[j].ETA.nan /\ db_incoming[j].ETA.v = today
             /\ db_incoming[j].Aantal = 2
             /\ ~db_incoming[k].ETA.nan /\ db_incoming[k].ETA.v < today
             /\ db_incoming[k].Aantal = 2

\* C7: a run of the Home page that finds the threshold input untouched changes
\* neither the session stock dataset nor any table, and renders the table the
\* previous run rendered the same day.
C7_RerunIdempotent ==
    [][HomeRun(Untouched) =>
         /\ UNCHANGED <<base_df, stores>>
         /\ (view.asof = today /\ ~view.none) => view' = view]_vars

\* a rendered Home table with rows, shipments and a stored threshold
C7_Witness ==
    /\ page = "Home" /\ ~view.none /\ view.asof = today
    /\ Len(view.rows) > 1
    /\ db_settings # <<>>
    /\ db_prices # <<>>
    /\ \E i \in 1..Len(view.rows) : view.rows[i].row.Incoming > 0

\* the enriched rows of stock records without a terms row of their own
Unmatched ==
    {i \in 1..Len(Merged.rows) :
        \A k \in 1..Len(db_prices) : Strip(db_prices[k].EAN) # Merged.rows[i].EAN}

\* C11: a stock record without matching terms row is enriched with defaults:
\* prices, costs, MOQ and lead time 0, supplier "" and (when the stock record
\* has no reference of its own) reference "", stock value and landed cost 0,
\* whether the terms store is empty or holds rows of other products only.
C11_UnmatchedDefaults ==
    \A i \in Unmatched :
        LET r == Merged.rows[i] IN
        /\ r.Verkoopprijs = 0 /\ r.Inkoopprijs = 0 /\ r.Verzendkosten = 0
        /\ r.Overige_kosten = 0 /\ r.MOQ = IntCell(0) /\ r.Levertijd_dagen = 0
        /\ r.Voorraadwaarde = 0 /\ r.Totale_kostprijs = 0
        /\ r.Leverancier = <<>>
        /\ (base_df.rows[i].Referentie = <<>> => r.Referentie = <<>>)

\* a step that commits a stock upload: the session gets its dataset, or the
\* stock snapshot changes
UploadCommitted == (base_df.none /\ ~base_df'.none) \/ db_base' # db_base

\* C12: committing a stock upload replaces only the stock snapshot: the terms
\* table, the shipments (and their id counter), the suppliers and the settings
\* are what they were, whatever uploads and edits came before.
C12_UploadKeepsOtherStores ==
    [][UploadCommitted =>
         /\ db_base' = save_base_df(base_df'.rows)
         /\ UNCHANGED <<db_prices, db_incoming, next_id, db_settings, db_suppliers>>]_vars

\* a committed stock snapshot next to terms, shipments, a threshold and a supplier
C12_Witness ==
    /\ ~base_df.none /\ db_base # <<>> /\ db_base = save_base_df(base_df.rows)
    /\ db_prices # <<>> /\ db_incoming # <<>> /\ db_settings # <<>> /\ db_suppliers # <<>>
    /\ page \in {"Home", "Inventory"}

Records(table) == {table[i] : i \in 1..Len(table)}

KnownId(d) == d > 0 /\ \E i \in 1..Len(db_incoming) : db_incoming[i].id = d

\* every shipment on record has a non-empty trimmed EAN and a quantity > 0
C13_ShipmentsWellFormed ==
    \A i \in 1..Len(db_incoming) :
        /\ db_incoming[i].EAN # <<>>
        /\ Strip(db_incoming[i].EAN) = db_incoming[i].EAN
        /\ db_incoming[i].Aantal > 0

\* C13: on the Incoming page every shipment on record has a non-empty trimmed
\* EAN and a quantity > 0; an add with a blank EAN or a quantity <= 0 and a
\* delete of an unknown ID leave the table unchanged; a delete of a known ID
\* removes the record with that ID and no other, shipments of the same product
\* included.
C13_IncomingAddDelete ==
    /\ []C13_ShipmentsWellFormed
    /\ [][\A ean \in EanInputs, qty \in QtyInputs, eta \in EtaInputs :
            (AddIncoming(ean, qty, eta) /\ (Strip(ean) = <<>> \/ qty <= 0))
              => UNCHANGED db_incoming]_vars
    /\ [][\A d \in 0..MaxShipments :
            DeleteIncoming(d) =>
              IF KnownId(d)
              THEN /\ Records(db_incoming') = {r \in Records(db_incoming) : r.id # d}
                   /\ Len(db_incoming') = Len(db_incoming) - 1
              ELSE UNCHANGED db_incoming]_vars

\* two shipments of one product were added and the first was deleted
C13_Witness ==
    /\ next_id = 3
    /\ Len(db_incoming) = 1
    /\ db_incoming[1].id = 2
    /\ db_incoming[1].Aantal = 2

\* what a fresh session loads from base_data
Snapshot == load_base_df(db_base)

\* C14: once an upload is committed, the session dataset and the snapshot a
\* fresh session loads hold the same records, at most one per EAN, and give
\* the same enriched view; also for an upload with several rows of one EAN and
\* for an upload without rows.
C14_SessionMatchesSnapshot ==
    ~base_df.none =>
        /\ ~Snapshot.none
        /\ Records(Snapshot.rows) = Records(base_df.rows)
        /\ \A i, j \in 1..Len(base_df.rows) :
             base_df.rows[i].EAN = base_df.rows[j].EAN => i = j
        /\ merged_inventory(Snapshot, db_prices, db_incoming, today) = Merged

\* the supplier a cell of the Home table stands for: none for an absent cell
CellSupplier(cell) == IF cell = NaN THEN <<>> ELSE Strip(cell)

\* the suppliers the edited table gives for product e
EditedSuppliers(edited, e) ==
    {CellSupplier(edited[k].Leverancier) :
        k \in {n \in 1..Len(edited) : edited[n].EAN # NaN /\ Strip(edited[n].EAN) = e}}

EditedEans(edited) ==
    {Strip(edited[k].EAN) : k \in {n \in 1..Len(edited) : edited[n].EAN # NaN}} \ {<<>>}

\* what a supplier save may do to the terms table, given the edited table
SupplierOnly(old, new, edited) ==
    /\ \A r \in Records(old) : r.EAN \notin EditedEans(edited) => r \in Records(new)
    /\ \A r \in Records(old) : r.EAN \in EditedEans(edited) =>
         \E lev \in EditedSuppliers(edited, r.EAN) :
             [r EXCEPT !.Leverancier = lev] \in Records(new)
    /\ \A e \in EditedEans(edited) : (\A r \in Records(old) : r.EAN # e) =>
         \E lev \in EditedSuppliers(edited, e) : DefaultTerms(e, lev) \in Records(new)
    /\ \A r \in Records(new) :
         r.EAN \in EditedEans(edited) \cup {x.EAN : x \in Records(old)}
    /\ \A i, j \in 1..Len(new) : new[i].EAN = new[j].EAN => i = j
    /\ edited = <<>> => new = old

\* C15: a supplier save from the Home table changes only suppliers: a product of
\* the edited table with a terms row gets the supplier of its table row and
\* keeps every other field; a product without terms row gets a row with prices
\* and costs 0, MOQ 1, lead time 0 and the supplier of its table row; terms rows
\* of products outside the table are unchanged; an empty table changes nothing.
C15_HomeSaveChangesSupplierOnly ==
    [][\A i \in 0..MaxRows, lev \in LevInputs :
         SaveHome(i, lev) => SupplierOnly(db_prices, db_prices', HomeEdited(i, lev))]_vars

====
